---- MODULE Spec2Model ----
(***************************************************************************)
(* Model of strgrid.py (Python 2): Entry, the cell of a string grid, and   *)
(* StringGrid, which computes the column widths of a jagged 2-D array of   *)
(* entries and renders it as a bordered table.                             *)
(*                                                                         *)
(* Python values are records with a type tag.  A str is a sequence of code *)
(* points; a str literal of the UTF-8 source file is a byte string, so the *)
(* builtin len counts each code point by its UTF-8 length.  Sequences are  *)
(* indexed from 1 here and from 0 in the source; positions reported in     *)
(* exceptions are the source's.                                            *)
(***************************************************************************)
EXTENDS Integers, Sequences, FiniteSets, TLC

VARIABLES
    pc,             \* where the caller is: "entry", "entry_done", "new", "constructed", "failed"
    args,           \* the arguments of the Entry(...) call
    entry,          \* the Entry the call returned
    array2d,        \* the list object the caller built; self.array2d refers to this same object
    row_count,      \* self.row_count
    column_count,   \* self.column_count
    column_widths,  \* self.column_widths
    call,           \* the last method called on the grid and its output argument
    ret,            \* what the last call returned
    error,          \* the exception the last call raised
    mods            \* how many times the caller modified array2d after construction

vars == <<pc, args, entry, array2d, row_count, column_count, column_widths,
          call, ret, error, mods>>

-----------------------------------------------------------------------------
(* Bounds of the model *)

MaxRows == 3
MaxCells == 3
MaxMods == 1

-----------------------------------------------------------------------------
(* Python values *)

PyStr(s) == [type |-> "str", chars |-> s, num |-> 0]
PyInt(n) == [type |-> "int", chars |-> <<>>, num |-> n]
PyNone == [type |-> "NoneType", chars |-> <<>>, num |-> 0]
PyEmptyList == [type |-> "list", chars |-> <<>>, num |-> 0]

\* Code points that are not ASCII: three CJK ideographs and a combining accent.
WideGlyphs == {"U+5973", "U+795E", "U+69D8"}
CombiningGlyphs == {"U+0301"}

\* Bytes of a code point in the UTF-8 encoded byte string.
Utf8Len(g) == IF g \in WideGlyphs THEN 3 ELSE IF g \in CombiningGlyphs THEN 2 ELSE 1

RECURSIVE ByteLen(_)
ByteLen(s) == IF s = <<>> THEN 0 ELSE Utf8Len(Head(s)) + ByteLen(Tail(s))

\* bool(x) as the `and` / `or` of Entry.__init__ evaluate it.
Truthy(x) ==
    CASE x.type = "str" -> x.chars # <<>>
      [] x.type = "int" -> x.num # 0
      [] OTHER -> FALSE          \* None and the empty list

\* Which values the builtin len accepts.
HasLen(x) == x.type \in {"str", "list"}

\* len(x) for a value that has a length.
PyLen(x) == IF x.type = "str" THEN ByteLen(x.chars) ELSE 0

Exc(exc, msg, i, j) == [exc |-> exc, msg |-> msg, i |-> i, j |-> j]
NoError == Exc("", "", -1, -1)

-----------------------------------------------------------------------------
(* class Entry *)

NewEntry(repr, align, width) ==
    [type |-> "Entry", repr |-> repr, align |-> align, width |-> width]

NoEntry == [type |-> "NoneType", repr |-> PyNone, align |-> "", width |-> 0]

\* A mutant of WidthOrLen: the width argument is ignored.
WidthOrLenIgnoringWidth(width, repr) == PyLen(repr)

\* `width or len(repr)`
WidthOrLen(width, repr) == IF Truthy(width) THEN width.num ELSE PyLen(repr)

\* Entry.__init__: the exception raised, and the object otherwise.
EntryInit(repr, align, width) ==
    IF Truthy(repr) /\ repr.type # "str"
    THEN [error |-> Exc("TypeError", "type of repr must be str", -1, -1), entry |-> NoEntry]
    ELSE IF align \notin {"left", "right", "center"}
    THEN [error |-> Exc("ValueError", "align should be left, right or center", -1, -1),
          entry |-> NoEntry]
    ELSE IF Truthy(width) /\ width.type # "int"
    THEN [error |-> Exc("TypeError", "width must be an integer", -1, -1), entry |-> NoEntry]
    ELSE IF ~Truthy(width) /\ ~HasLen(repr)
    THEN [error |-> Exc("TypeError", "object has no len()", -1, -1), entry |-> NoEntry]
    ELSE [error |-> NoError, entry |-> NewEntry(repr, align, WidthOrLen(width, repr))]

\* The object Entry(repr, align, width) returns.
Entry(repr, align, width) == EntryInit(repr, align, width).entry

-----------------------------------------------------------------------------
(* Texts and arguments the caller uses *)

T_empty == <<>>
T_a == <<"a">>
T_bb == <<"b", "b">>
T_x == <<"x">>
T_abc == <<"a", "b", "c">>
T_abcd == <<"a", "b", "c", "d">>
T_hello == <<"h", "e", "l", "l", "o">>
T_world == <<"w", "o", "r", "l", "d">>
T_wide3 == <<"U+5973", "U+795E", "U+69D8">>
T_accent == <<"e", "U+0301">>

ReprArgs ==
    {PyStr(T_empty), PyStr(T_a), PyStr(T_bb), PyStr(T_abcd), PyStr(T_hello),
     PyStr(T_wide3), PyStr(T_accent), PyNone, PyInt(0), PyInt(12345), PyEmptyList}

AlignArgs == {"left", "right", "center", "middle"}

WidthArgs ==
    {PyNone, PyStr(<<"1", "0">>), PyStr(T_empty)} \cup {PyInt(n) : n \in {-3, -1, 0, 1, 2, 6}}

NoArgs == [repr |-> PyNone, align |-> "", width |-> PyNone]

-----------------------------------------------------------------------------
(* The arrays the caller passes to StringGrid *)

List(items) == [type |-> "list", items |-> items]
Tuple(items) == [type |-> "tuple", items |-> items]

\* A bare Entry where a row or the whole array is expected.
NotASequence == [type |-> "Entry", items |-> <<>>]

\* A bare str where an Entry is expected.
BareStr == [type |-> "str", repr |-> PyStr(T_x), align |-> "", width |-> 0]

\* The entries of the enumerated arrays, each as its constructor returns it.
GridEntries ==
    {Entry(PyStr(T_a), "left", PyNone),
     Entry(PyStr(T_bb), "right", PyNone),
     Entry(PyStr(T_empty), "center", PyNone),
     Entry(PyStr(T_a), "left", PyInt(-3))}

GridCells == GridEntries \cup {BareStr}

\* The shape of an array: the length of each row, -1 for a row that is no
\* sequence (counted as one element), at most MaxCells elements in all.
RECURSIVE ShapeCost(_)
ShapeCost(lens) ==
    IF lens = <<>> THEN 0
    ELSE (IF Head(lens) < 0 THEN 1 ELSE Head(lens)) + ShapeCost(Tail(lens))

RECURSIVE CellCount(_)
CellCount(lens) ==
    IF lens = <<>> THEN 0
    ELSE (IF Head(lens) < 0 THEN 0 ELSE Head(lens)) + CellCount(Tail(lens))

Shapes ==
    {lens \in UNION {[1..r -> -1..MaxCells] : r \in 0..MaxRows} : ShapeCost(lens) <= MaxCells}

\* The array of the given shape whose elements are cells, row after row.
BuildArray(lens, cells) ==
    List([i \in 1..Len(lens) |->
            IF lens[i] < 0 THEN NotASequence
            ELSE List([j \in 1..lens[i] |-> cells[CellCount(SubSeq(lens, 1, i - 1)) + j]])])

\* [[Entry("x")]]
ScenarioA == List(<<List(<<Entry(PyStr(T_x), "left", PyNone)>>)>>)

\* [[Entry("hello"), Entry(""), Entry("world", "center")], [Entry("a"), Entry("bb")]]
ScenarioB ==
    List(<<List(<<Entry(PyStr(T_hello), "left", PyNone),
                  Entry(PyStr(T_empty), "left", PyNone),
                  Entry(PyStr(T_world), "center", PyNone)>>),
           List(<<Entry(PyStr(T_a), "left", PyNone),
                  Entry(PyStr(T_bb), "left", PyNone)>>)>>)

\* A centered entry of width 3 in a column of width 4.
ScenarioC ==
    List(<<List(<<Entry(PyStr(T_abc), "center", PyNone)>>),
           List(<<Entry(PyStr(T_abcd), "left", PyNone)>>)>>)

\* Three wide glyphs given width 6, as test() does, over a 4-column ASCII string.
ScenarioD ==
    Tuple(<<Tuple(<<Entry(PyStr(T_wide3), "left", PyInt(6))>>),
            Tuple(<<Entry(PyStr(T_abcd), "right", PyNone)>>)>>)

\* Entries the constructor accepts although their repr is no str.
ScenarioNonText ==
    {List(<<List(<<Entry(PyInt(0), "left", PyInt(2))>>)>>),
     List(<<List(<<Entry(PyStr(T_a), "left", PyNone), Entry(PyEmptyList, "center", PyNone)>>),
            List(<<Entry(PyStr(T_bb), "right", PyNone)>>)>>)}

Scenarios ==
    {ScenarioA, ScenarioB, ScenarioC, ScenarioD, NotASequence} \cup ScenarioNonText

-----------------------------------------------------------------------------
(* class StringGrid: __init__ *)

IsSequence(x) == x.type \in {"tuple", "list"}

\* A mutant of IsEntry: the isinstance check is missing.
IsEntryUnchecked(x) == TRUE

\* isinstance(entry, Entry)
IsEntry(x) == x.type = "Entry"

\* A mutant of UpdateWidths: the last row's width replaces the column's.
UpdateWidthsOverwrite(widths, j, width) ==
    IF j <= Len(widths) THEN [widths EXCEPT ![j] = width] ELSE Append(widths, width)

\* The try/except of the inner loop: the running maximum of column j, or a
\* new column when column_widths[j] raises IndexError.
UpdateWidths(widths, j, width) ==
    IF j <= Len(widths)
    THEN IF width > widths[j] THEN [widths EXCEPT ![j] = width] ELSE widths
    ELSE Append(widths, width)

\* The inner loop over row i from element j on; st holds column_count,
\* column_widths and the exception raised so far.
RECURSIVE ScanRow(_, _, _, _)
ScanRow(i, row, j, st) ==
    IF j > Len(row.items) THEN st
    ELSE IF ~IsEntry(row.items[j])
    THEN [st EXCEPT !.error = Exc("TypeError", "entry must be an Entry", i - 1, j - 1)]
    ELSE ScanRow(i, row, j + 1,
                 [st EXCEPT !.column_widths = UpdateWidths(@, j, row.items[j].width)])

\* The outer loop from row i on.
RECURSIVE ScanRows(_, _, _)
ScanRows(a, i, st) ==
    IF i > Len(a.items) THEN st
    ELSE LET row == a.items[i] IN
         IF ~IsSequence(row)
         THEN [st EXCEPT !.error = Exc("TypeError", "row must be a tuple or list", i - 1, -1)]
         ELSE LET size == Len(row.items)
                  st1 == [st EXCEPT !.column_count = IF size > @ THEN size ELSE @]
                  st2 == ScanRow(i, row, 1, st1)
              IN  IF st2.error # NoError THEN st2 ELSE ScanRows(a, i + 1, st2)

\* StringGrid.__init__: the exception raised, and the attributes otherwise.
StringGridInit(a) ==
    LET failed(e) == [error |-> e, row_count |-> 0, column_count |-> 0, column_widths |-> <<>>]
    IN
    IF ~IsSequence(a)
    THEN failed(Exc("TypeError", "array2d must be a tuple or list", -1, -1))
    ELSE IF Len(a.items) <= 0
    THEN failed(Exc("ValueError", "array2d cannot be empty", -1, -1))
    ELSE LET st == ScanRows(a, 1, [column_count |-> 0, column_widths |-> <<>>,
                                   error |-> NoError])
         IN  IF st.error # NoError THEN failed(st.error)
             ELSE IF st.column_count <= 0
             THEN failed(Exc("ValueError", "array2d cannot be empty", -1, -1))
             ELSE [error |-> NoError, row_count |-> Len(a.items),
                   column_count |-> st.column_count, column_widths |-> st.column_widths]

-----------------------------------------------------------------------------
(* class StringGrid: rendering.  self is the state: array2d, row_count,    *)
(* column_count, column_widths.  A str is a sequence of characters.        *)

\* ch * n: the empty str when n <= 0.
Rep(ch, n) == [k \in 1..n |-> ch]

\* sep.join(strs)
RECURSIVE PyJoin(_, _)
PyJoin(sep, strs) ==
    IF strs = <<>> THEN <<>>
    ELSE IF Len(strs) = 1 THEN strs[1]
    ELSE strs[1] \o sep \o PyJoin(sep, Tail(strs))

IndexError == Exc("IndexError", "list index out of range", -1, -1)
ConcatError == Exc("TypeError", "cannot concatenate repr and str", -1, -1)

\* StringGrid.renderHorizontalSplitter
renderHorizontalSplitter(widths) ==
    <<"+">> \o PyJoin(<<"+">>, [k \in 1..Len(widths) |-> Rep("-", widths[k] + 2)]) \o <<"+">>

\* The spaces before a centered text: spaces / 2, or (spaces - 1) / 2 when
\* spaces is odd (integer division rounds down).
CenterPrefix(spaces) == IF spaces % 2 = 0 THEN spaces \div 2 ELSE (spaces - 1) \div 2

\* StringGrid.renderCell(i, j): IndexError when the row has no element j,
\* TypeError when repr cannot be concatenated with a str.
renderCell(i, j) ==
    IF i > Len(array2d.items) \/ j > Len(array2d.items[i].items)
    THEN [error |-> IndexError, str |-> <<>>]
    ELSE LET e == array2d.items[i].items[j]
             column_width == column_widths[j]
             spaces == column_width - e.width
             cont ==
                 IF e.align = "left" THEN e.repr.chars \o Rep(" ", spaces)
                 ELSE IF e.align = "right" THEN Rep(" ", spaces) \o e.repr.chars
                 ELSE IF spaces % 2 = 0
                 THEN Rep(" ", CenterPrefix(spaces)) \o e.repr.chars
                          \o Rep(" ", CenterPrefix(spaces))
                 ELSE Rep(" ", CenterPrefix(spaces)) \o e.repr.chars
                          \o Rep(" ", spaces - CenterPrefix(spaces))
         IN  IF e.repr.type # "str"
             THEN [error |-> ConcatError, str |-> <<>>]
             ELSE [error |-> NoError, str |-> <<" ">> \o cont \o <<" ">>]

\* The loop of renderRow from column j on.
RECURSIVE RenderRowFrom(_, _, _)
RenderRowFrom(index, j, result) ==
    IF j > column_count THEN [error |-> NoError, str |-> result]
    ELSE LET cell == renderCell(index, j) IN
         IF cell.error = IndexError
         THEN RenderRowFrom(index, j + 1,
                  result \o <<" ">> \o Rep(" ", column_widths[j]) \o <<" ">> \o <<"|">>)
         ELSE IF cell.error # NoError THEN [error |-> cell.error, str |-> <<>>]
         ELSE RenderRowFrom(index, j + 1, result \o cell.str \o <<"|">>)

\* StringGrid.renderRow(index)
renderRow(index) ==
    IF index > Len(array2d.items) THEN [error |-> IndexError, str |-> <<>>]
    ELSE RenderRowFrom(index, 1, <<"|">>)

\* Step 4 of render: the rows from i on are appended to rendered_rows.
RECURSIVE RenderBody(_, _)
RenderBody(i, rendered_rows) ==
    IF i > row_count THEN [error |-> NoError, list |-> rendered_rows]
    ELSE LET r == renderRow(i) IN
         IF r.error # NoError THEN [error |-> r.error, list |-> <<>>]
         ELSE RenderBody(i + 1, Append(rendered_rows, r.str))

\* A mutant of RenderedRows: the splitter under the first row is left out.
RenderedRowsNoHeaderSplitter ==
    LET horizontal_splitter == renderHorizontalSplitter(column_widths)
        first == renderRow(1)
    IN  IF first.error # NoError THEN [error |-> first.error, list |-> <<>>]
        ELSE LET body == RenderBody(2, <<horizontal_splitter, first.str>>) IN
             IF body.error # NoError THEN body
             ELSE [error |-> NoError, list |-> Append(body.list, horizontal_splitter)]

\* Steps 1 to 5 of render: rendered_rows.
RenderedRows ==
    LET horizontal_splitter == renderHorizontalSplitter(column_widths)
        first == renderRow(1)
    IN  IF first.error # NoError THEN [error |-> first.error, list |-> <<>>]
        ELSE LET head == <<horizontal_splitter, first.str, horizontal_splitter>> IN
             IF row_count > 1
             THEN LET body == RenderBody(2, head) IN
                  IF body.error # NoError THEN body
                  ELSE [error |-> NoError, list |-> Append(body.list, horizontal_splitter)]
             ELSE [error |-> NoError, list |-> head]

Ret(type, str, list, strings) ==
    [type |-> type, str |-> str, list |-> list, strings |-> strings]
NoRet == Ret("NoneType", <<>>, <<>>, <<>>)

\* StringGrid.render(output)
render(output) ==
    IF output \notin {"str", "list"}
    THEN [error |-> Exc("ValueError", "output should be list or str", -1, -1), ret |-> NoRet]
    ELSE LET r == RenderedRows IN
         IF r.error # NoError THEN [error |-> r.error, ret |-> NoRet]
         ELSE IF output = "str"
         THEN [error |-> NoError, ret |-> Ret("str", PyJoin(<<"\n">>, r.list), <<>>, <<>>)]
         ELSE [error |-> NoError, ret |-> Ret("list", <<>>, r.list, <<>>)]

\* StringGrid.extractStrings()
extractStrings ==
    [i \in 1..Len(array2d.items) |->
        [j \in 1..Len(array2d.items[i].items) |-> array2d.items[i].items[j].repr]]

OutputArgs == {"str", "list", "table"}

-----------------------------------------------------------------------------
(* The caller *)

NoCall == [op |-> "", output |-> ""]

\* The caller is about to call Entry(repr, align, width).
InitEntry ==
    /\ pc = "entry"
    /\ args \in [repr : ReprArgs, align : AlignArgs, width : WidthArgs]
    /\ entry = NoEntry
    /\ array2d = List(<<>>)
    /\ row_count = 0 /\ column_count = 0 /\ column_widths = <<>>
    /\ call = NoCall /\ ret = NoRet /\ error = NoError /\ mods = 0

\* The caller has built array2d and is about to call StringGrid(array2d).
InitGrid ==
    /\ pc = "new"
    /\ args = NoArgs
    /\ entry = NoEntry
    /\ \/ \E lens \in Shapes : \E cells \in [1..CellCount(lens) -> GridCells] :
             array2d = BuildArray(lens, cells)
       \/ array2d \in Scenarios
    /\ row_count = 0 /\ column_count = 0 /\ column_widths = <<>>
    /\ call = NoCall /\ ret = NoRet /\ error = NoError /\ mods = 0

Init == InitEntry \/ InitGrid

\* entry = Entry(repr, align, width)
CallEntry ==
    /\ pc = "entry"
    /\ LET r == EntryInit(args.repr, args.align, args.width) IN
          /\ entry' = r.entry
          /\ error' = r.error
    /\ pc' = "entry_done"
    /\ call' = [op |-> "Entry", output |-> ""]
    /\ UNCHANGED <<args, array2d, row_count, column_count, column_widths, ret, mods>>

\* grid = StringGrid(array2d)
CallStringGrid ==
    /\ pc = "new"
    /\ LET r == StringGridInit(array2d) IN
          /\ pc' = IF r.error = NoError THEN "constructed" ELSE "failed"
          /\ row_count' = r.row_count
          /\ column_count' = r.column_count
          /\ column_widths' = r.column_widths
          /\ error' = r.error
    /\ call' = [op |-> "StringGrid", output |-> ""]
    /\ UNCHANGED <<args, entry, array2d, ret, mods>>

\* grid.render(output)
CallRender ==
    /\ pc = "constructed"
    /\ \E output \in OutputArgs :
          LET r == render(output) IN
             /\ call' = [op |-> "render", output |-> output]
             /\ ret' = r.ret
             /\ error' = r.error
    /\ UNCHANGED <<pc, args, entry, array2d, row_count, column_count, column_widths, mods>>

\* grid.extractStrings()
CallExtractStrings ==
    /\ pc = "constructed"
    /\ call' = [op |-> "extractStrings", output |-> ""]
    /\ ret' = Ret("strings", <<>>, <<>>, extractStrings)
    /\ error' = NoError
    /\ UNCHANGED <<pc, args, entry, array2d, row_count, column_count, column_widths, mods>>

Next == CallEntry \/ CallStringGrid \/ CallRender \/ CallExtractStrings

Spec == Init /\ [][Next]_vars

-----------------------------------------------------------------------------
(* The caller keeps its list and modifies it after the grid is built.      *)
(* __init__ stores the reference it was given (self.array2d = array2d), so *)
(* the list the caller modifies is the list the grid reads.                *)

ListRows == {i \in 1..Len(array2d.items) : array2d.items[i].type = "list"}

\* array2d[i][j] = e
CallerSetItem ==
    /\ pc = "constructed" /\ mods < MaxMods /\ array2d.type = "list"
    /\ \E i \in ListRows : \E j \in 1..Len(array2d.items[i].items) : \E e \in GridEntries :
          array2d' = [array2d EXCEPT !.items[i].items[j] = e]
    /\ mods' = mods + 1
    /\ UNCHANGED <<pc, args, entry, row_count, column_count, column_widths, call, ret, error>>

\* array2d[i].append(e)
CallerAppendItem ==
    /\ pc = "constructed" /\ mods < MaxMods /\ array2d.type = "list"
    /\ \E i \in ListRows : \E e \in GridEntries :
          array2d' = [array2d EXCEPT !.items[i].items = Append(@, e)]
    /\ mods' = mods + 1
    /\ UNCHANGED <<pc, args, entry, row_count, column_count, column_widths, call, ret, error>>

\* array2d.pop()
CallerPopRow ==
    /\ pc = "constructed" /\ mods < MaxMods /\ array2d.type = "list"
    /\ Len(array2d.items) >= 1
    /\ array2d' = [array2d EXCEPT !.items = SubSeq(@, 1, Len(@) - 1)]
    /\ mods' = mods + 1
    /\ UNCHANGED <<pc, args, entry, row_count, column_count, column_widths, call, ret, error>>

NextAlias ==
    \/ CallEntry \/ CallStringGrid \/ CallRender \/ CallExtractStrings
    \/ CallerSetItem \/ CallerAppendItem \/ CallerPopRow

SpecAlias == Init /\ [][NextAlias]_vars

-----------------------------------------------------------------------------
(* Vocabulary of the properties *)

IsMax(m, S) == m \in S /\ \A x \in S : x <= m

\* The rows of the grid that have an element at column j.
PresentAt(j) == {i \in 1..Len(array2d.items) : Len(array2d.items[i].items) >= j}

\* The widths of the entries the grid holds at column j.
WidthsAt(j) == {array2d.items[i].items[j].width : i \in PresentAt(j)}

RowLengths == {Len(array2d.items[i].items) : i \in 1..Len(array2d.items)}

\* The lines of a str, split at the newlines.
SplitLines(str) ==
    LET breaks == {k \in 1..Len(str) : str[k] = "\n"}
        \* the position of the m-th newline; 0 and Len(str) + 1 bound the str
        break(m) == IF m = 0 THEN 0
                    ELSE IF m > Cardinality(breaks) THEN Len(str) + 1
                    ELSE CHOOSE k \in breaks : Cardinality({x \in breaks : x < k}) = m - 1
    IN  [m \in 1..(Cardinality(breaks) + 1) |-> SubSeq(str, break(m - 1) + 1, break(m) - 1)]

\* The lines render returned, in either output mode.
Lines == IF ret.type = "list" THEN ret.list ELSE SplitLines(ret.str)

Rendered == pc = "constructed" /\ call.op = "render" /\ call.output \in {"str", "list"}

RECURSIVE SumOver(_, _)
SumOver(f, n) == IF n = 0 THEN 0 ELSE f[n] + SumOver(f, n - 1)

\* Terminal columns of a text: 2 for a wide code point, 0 for a combining one.
RECURSIVE DisplayWidth(_)
DisplayWidth(s) ==
    IF s = <<>> THEN 0
    ELSE (IF Head(s) \in WideGlyphs THEN 2 ELSE IF Head(s) \in CombiningGlyphs THEN 0 ELSE 1)
             + DisplayWidth(Tail(s))

\* Bytes of the UTF-8 encoding of a text.
Utf8Bytes(s) ==
    Len(s) + 2 * Cardinality({k \in 1..Len(s) : s[k] \in WideGlyphs})
           + Cardinality({k \in 1..Len(s) : s[k] \in CombiningGlyphs})

\* The row of the grid that line k of the output renders, 0 for a splitter.
RowOfLine(k, n) == IF k = 2 THEN 1 ELSE IF k >= 4 /\ k < n THEN k - 2 ELSE 0

\* Display columns of line k: every character one column, but the text of an
\* entry its stored width.
DisplayLen(k, lines) ==
    LET i == RowOfLine(k, Len(lines)) IN
    IF i = 0 THEN Len(lines[k])
    ELSE LET row == array2d.items[i].items IN
         Len(lines[k]) - SumOver([j \in 1..Len(row) |-> Len(row[j].repr.chars)], Len(row))
                       + SumOver([j \in 1..Len(row) |-> row[j].width], Len(row))

-----------------------------------------------------------------------------
(* Properties *)

\* C1: after a successful construction column_widths has column_count
\* elements, column_count is the longest row's length, column_widths[j] is
\* the maximum width of the entries present at column j (short rows
\* contribute nothing), and constructing from the same rows with a shorter
\* row of entries appended lowers no width.
C1_ColumnWidthsAreColumnMaxima ==
    pc = "constructed" =>
        /\ IsMax(column_count, RowLengths)
        /\ Len(column_widths) = column_count
        /\ \A j \in 1..column_count : IsMax(column_widths[j], WidthsAt(j))
        /\ \A k \in 0..(column_count - 1) : \A short \in [1..k -> GridEntries] :
              LET g == StringGridInit([array2d EXCEPT !.items = Append(@, List(short))]) IN
                 /\ g.error = NoError
                 /\ \A j \in 1..column_count : g.column_widths[j] >= column_widths[j]

\* A jagged grid whose first column's width comes from the first row.
C1_Witness ==
    /\ pc = "constructed"
    /\ Len(array2d.items) >= 2
    /\ Len(array2d.items[2].items) >= 1
    /\ Len(array2d.items[1].items) > Len(array2d.items[2].items)
    /\ array2d.items[2].items[1].width < column_widths[1]

\* C2: render with a valid output mode returns splitter, row 0, splitter and,
\* only when row_count > 1, rows 1..row_count-1 in order and one more
\* splitter: 3 lines for one row, row_count + 3 otherwise.
C2_RenderLineSequence ==
    Rendered =>
        /\ error = NoError
        /\ LET splitter == renderHorizontalSplitter(column_widths) IN
              /\ Len(Lines) = IF row_count = 1 THEN 3 ELSE row_count + 3
              /\ Lines[1] = splitter
              /\ Lines[2] = renderRow(1).str
              /\ Lines[3] = splitter
              /\ row_count > 1 =>
                    /\ \A i \in 2..row_count : Lines[i + 2] = renderRow(i).str
                    /\ Lines[row_count + 3] = splitter

\* C3: every entry present in a constructed grid renders as a space, the
\* text padded by spaces = column_widths[j] - width >= 0, and a space: the
\* padding after the text for left, before it for right, and for center
\* floor(spaces / 2) before and the rest after.
C3_RenderCellPadding ==
    pc = "constructed" =>
        \A i \in 1..Len(array2d.items) : \A j \in 1..Len(array2d.items[i].items) :
            LET e == array2d.items[i].items[j]
                spaces == column_widths[j] - e.width
                before == CASE e.align = "left" -> 0
                            [] e.align = "right" -> spaces
                            [] OTHER -> spaces \div 2
            IN  /\ spaces >= 0
                /\ renderCell(i, j).error = NoError
                /\ renderCell(i, j).str =
                       <<" ">> \o [k \in 1..before |-> " "] \o e.repr.chars
                               \o [k \in 1..(spaces - before) |-> " "] \o <<" ">>

\* C4: every line render returns has the same display length, the sum of
\* column_widths[j] + 2 over the columns plus column_count + 1.
C4_LinesSameDisplayLength ==
    (Rendered /\ error = NoError) =>
        \A k \in 1..Len(Lines) :
            DisplayLen(k, Lines) =
                SumOver([j \in 1..column_count |-> column_widths[j] + 2], column_count)
                    + column_count + 1

\* C5: construction succeeds exactly when the array has a row, every row is
\* a list or tuple, every element is an Entry and some row is not empty; it
\* raises ValueError for no rows or only empty rows, TypeError for a row
\* that is no sequence and TypeError for an element that is no Entry (the
\* first offence in row order names the position); a failed construction
\* leaves no grid to call.
C5_ConstructionOutcome ==
    pc \in {"constructed", "failed"} =>
        LET rows == array2d.items
            isSeq == array2d.type \in {"list", "tuple"}
            badRows == {i \in 1..Len(rows) : rows[i].type \notin {"list", "tuple"}}
            badCells == {ij \in (1..Len(rows)) \X (1..MaxCells + 1) :
                            /\ ij[1] \notin badRows
                            /\ ij[2] <= Len(rows[ij[1]].items)
                            /\ rows[ij[1]].items[ij[2]].type # "Entry"}
            someCell == \E i \in 1..Len(rows) : Len(rows[i].items) >= 1
        IN  /\ pc = "constructed" <=>
                  (isSeq /\ Len(rows) >= 1 /\ badRows = {} /\ badCells = {} /\ someCell)
            /\ (pc = "constructed" /\ call.op = "StringGrid") => error = NoError
            /\ (isSeq /\ (Len(rows) = 0 \/ (badRows = {} /\ ~someCell))) =>
                  /\ pc = "failed"
                  /\ error = Exc("ValueError", "array2d cannot be empty", -1, -1)
            /\ (isSeq /\ (badRows # {} \/ badCells # {})) =>
                  /\ pc = "failed"
                  /\ error.exc = "TypeError"
            /\ (isSeq /\ badRows # {} /\ badCells = {}) =>
                  /\ error.msg = "row must be a tuple or list"
                  /\ IsMax(-error.i, {-(i - 1) : i \in badRows})
            /\ (isSeq /\ badCells # {} /\ badRows = {}) =>
                  /\ error.msg = "entry must be an Entry"
                  /\ <<error.i + 1, error.j + 1>> \in badCells
                  /\ \A ij \in badCells :
                        ij[1] > error.i + 1 \/ (ij[1] = error.i + 1 /\ ij[2] >= error.j + 1)
            /\ pc = "failed" => ~ENABLED (CallRender \/ CallExtractStrings)

\* A construction that failed on an element that is not the first of its row.
C5_Witness ==
    /\ pc = "failed"
    /\ error.msg = "entry must be an Entry"
    /\ error.j >= 1

\* C6: Entry(...) raises the repr TypeError for every repr that is given and
\* is no str, whatever align and width are, so no Entry holds a non-str repr.
C6_NonTextReprRejected ==
    pc = "entry_done" =>
        /\ args.repr.type \notin {"str", "NoneType"} =>
              error = Exc("TypeError", "type of repr must be str", -1, -1)
        /\ entry # NoEntry => entry.repr.type = "str"

\* C7: whatever the caller does to the array it passed in, the grid keeps
\* the rows it was constructed from: row_count rows, the longest of length
\* column_count, and column_widths[j] the maximum width held at column j.
C7_GridUnchangedAfterConstruction ==
    pc = "constructed" =>
        /\ Len(array2d.items) = row_count
        /\ IsMax(column_count, RowLengths)
        /\ \A j \in 1..column_count : IsMax(column_widths[j], WidthsAt(j))

\* C8: a constructed Entry has width >= 0, and so has every column of a
\* constructed grid.
C8_WidthNonNegative ==
    /\ (pc = "entry_done" /\ error = NoError) => entry.width >= 0
    /\ pc = "constructed" => \A j \in 1..Len(column_widths) : column_widths[j] >= 0

C10_ScenarioBFourLines ==
    (Rendered /\ array2d = ScenarioB) => (error = NoError /\ Len(Lines) = 4)

\* C10 as amended: rendering Scenario B returns exactly 5 lines: splitter,
\* header row, splitter, body row with its missing column 2 as blanks of
\* that column's width, closing splitter.
C10_ScenarioBFiveLines ==
    (Rendered /\ array2d = ScenarioB) =>
        /\ error = NoError
        /\ LET dashes(n) == [k \in 1..n |-> "-"]
               blanks(n) == [k \in 1..n |-> " "]
               splitter == <<"+">> \o dashes(7) \o <<"+">> \o dashes(4) \o <<"+">>
                               \o dashes(7) \o <<"+">>
               header == <<"|", " ">> \o T_hello \o <<" ", "|">> \o blanks(4) \o <<"|", " ">>
                             \o T_world \o <<" ", "|">>
               body == <<"|", " ">> \o T_a \o blanks(5) \o <<"|", " ">> \o T_bb
                           \o <<" ", "|">> \o blanks(7) \o <<"|">>
           IN  Lines = <<splitter, header, splitter, body, splitter>>

\* Scenario B rendered as one str.
C10_Witness ==
    /\ Rendered
    /\ array2d = ScenarioB
    /\ call.output = "str"
    /\ error = NoError
    /\ Len(Lines) = 5

====
